---- MODULE Spec2Model ----
(***************************************************************************)
(* Sale-transaction reconciliation of the vapebar inventory tracker.       *)
(*                                                                         *)
(* The Row Store is a spreadsheet: every table is a sequence of rows whose *)
(* first row is the header, so the position of a row in the sequence is    *)
(* its sheet row number (JavaScript array index + 1).  The server's        *)
(* recordSale handler and the browser client's processClaim and            *)
(* markLoanAsPaid are chains of store calls; each store call is one atomic *)
(* step together with the synchronous code that follows it up to the next  *)
(* await.  Requests interleave between their store calls.                  *)
(*                                                                         *)
(* Numbers: quantities are integers, prices are integers in thousandths of *)
(* a currency unit (mills), totals are integers in hundredths (cents).     *)
(* NaN stands for JavaScript's NaN and for any non-numeric cell text.      *)
(***************************************************************************)
EXTENDS Integers, Sequences, FiniteSets, TLC

\* ------------------------------------------------------------- bounds
MaxOps == 2        \* operations (sales, claims, markPaid calls) started in one run
MaxBulk == 1       \* bulk sales among them
MaxQty == 2        \* largest initial stock of an item
MaxClock == 2      \* clock readings 0..MaxClock (milliseconds, scaled)
DayLen == 2        \* clock readings per calendar day (scaled)
MaxLines == 2      \* most lines of a bulk sale

\* ------------------------------------------------------------- numbers
NaN == -99

IsNaN(x) == x = NaN

\* A request field as it arrives: a number, a non-numeric string, a number
\* with a fraction (Frac(n) is n + 1/2, as in "1.5"), or a field that is
\* absent or "".  Where only the `|| 0` branch matters an absent field is
\* given as Num(0).
Num(n) == [k |-> "num", v |-> n]
Txt == [k |-> "txt", v |-> 0]
Frac(n) == [k |-> "frac", v |-> n]
Absent == [k |-> "none", v |-> 0]

\* JavaScript truthiness of a request field.
Truthy(raw) == raw.k \in {"txt", "frac"} \/ raw.v # 0

\* parseInt(raw || 0): the leading integer of the field, NaN when it has none
ParseInt(raw) == IF raw.k = "txt" THEN NaN ELSE raw.v

\* parseFloat(raw), prices in mills
ParseFloat(raw) == IF raw.k = "txt" THEN NaN ELSE raw.v

\* A comparison that never finds a greater than b.
GtNever(a, b) == FALSE

\* a > b in JavaScript: false when either side is NaN
Gt(a, b) == ~IsNaN(a) /\ ~IsNaN(b) /\ a > b

\* a - b and a * b in JavaScript
Sub(a, b) == IF IsNaN(a) \/ IsNaN(b) THEN NaN ELSE a - b
Mul(a, b) == IF IsNaN(a) \/ IsNaN(b) THEN NaN ELSE a * b

\* x || 0 for a number x
OrZero(x) == IF IsNaN(x) THEN 0 ELSE x

\* A toFixed that drops the digits after the second decimal.
ToFixed2Trunc(m) == IF IsNaN(m) THEN NaN ELSE m \div 10

\* (mills).toFixed(2), in cents: nearest cent, the larger one on a tie
ToFixed2(m) == IF IsNaN(m) THEN NaN ELSE IF m >= 0 THEN (m + 5) \div 10 ELSE 0 - ((5 - m) \div 10)

\* new Date().toISOString().slice(0, 10): the calendar day of a clock reading
DateOf(t) == t \div DayLen
NoDate == -1

\* ------------------------------------------------------------- the store
VARIABLES inv, sales, loans, warranty, now

\* Header rows (row 1 of each sheet); their numeric columns hold text.
InvHeader == [id |-> "ID", qty |-> NaN, price |-> NaN]
SalesHeader == [saleId |-> NaN, itemId |-> "Item ID", qty |-> NaN, price |-> NaN, total |-> NaN, pm |-> "Payment Method", by |-> 0]
LoansHeader == [loanId |-> NaN, saleId |-> NaN, amount |-> NaN, status |-> "Status", datePaid |-> NoDate, by |-> 0]
WarrantyHeader == [claimId |-> NaN, itemId |-> "Product ID", qty |-> NaN, status |-> "Status", by |-> 0]

\* sheets.spreadsheets.values.get: all rows, header first
ReadAll(table) == table

\* sheets.spreadsheets.values.append: one row after the last row
AppendRow(table, row) == Append(table, row)

\* A cell write that keeps the smaller of the stored and the new quantity.
WriteQtyCellIfLower(table, rowNumber, v) ==
    [table EXCEPT ![rowNumber].qty = IF @ # NaN /\ v # NaN /\ @ < v THEN @ ELSE v]

\* sheets.spreadsheets.values.update of the single cell Inventory!F<rowNumber>
WriteQtyCell(table, rowNumber, v) == [table EXCEPT ![rowNumber].qty = v]

\* ------------------------------------------------------------- the server
VARIABLES req, items, claims, cl, cops

\* The sheets of the spreadsheet (spreadsheet.data.sheets titles) and the
\* handlers that are in ensureSheetExists or just past it.
VARIABLES titles, ens

MaxCallers == 2    \* handlers that call ensureSheetExists concurrently

Req == 1..MaxOps

ItemIds == {"A", "B"}
UnknownId == "Z"

SaleQtys == {Txt} \cup {Num(n) : n \in 0..MaxQty}

\* The price and payment fields of the requests: an applied price on credit,
\* a price per unit paid by e-wallet, and neither price with no payment method.
SaleTerms == {[appliedPrice |-> Num(1999), pricePerUnit |-> Num(0), paymentMethod |-> "Loan"],
              [appliedPrice |-> Num(0), pricePerUnit |-> Num(1250), paymentMethod |-> "GCash"],
              [appliedPrice |-> Num(0), pricePerUnit |-> Num(0), paymentMethod |-> ""]}

SingleSales == {[nLines |-> 0, bulkItems |-> <<>>, itemId |-> i, quantitySold |-> q,
                 appliedPrice |-> t.appliedPrice, pricePerUnit |-> t.pricePerUnit,
                 paymentMethod |-> t.paymentMethod] :
                   i \in ItemIds \cup {UnknownId}, q \in SaleQtys, t \in SaleTerms}

NoSale == [nLines |-> 0, bulkItems |-> <<>>, itemId |-> "", quantitySold |-> Num(0),
           appliedPrice |-> Num(0), pricePerUnit |-> Num(0), paymentMethod |-> ""]

\* A request: its position, its input, the locals `values` and `saleId`, the
\* loop index, its response, and a record of what it did (the rows as read,
\* the appends and the quantity writes it issued).
IdleReq == [pc |-> "idle", sale |-> NoSale, values |-> <<>>, saleId |-> NaN, idx |-> 0,
            result |-> "", newQuantity |-> NaN, asRead |-> <<>>, nSale |-> 0, nLoan |-> 0, wr |-> <<>>]

\* values[i] of the JavaScript array `values` (index 0 is the header)
At(values, i) == values[i + 1]

\* A lookup that counts from the first data row.
FindIndexInData(values, itemId) ==
    LET hits == {i \in 0..(Len(values) - 2) : values[i + 2].id # "" /\ values[i + 2].id = itemId}
    IN IF hits = {} THEN -1 ELSE CHOOSE i \in hits : \A j \in hits : i <= j

\* The lookup loops of recordSale: the first i >= 1 with values[i][0] equal to
\* itemId, or -1.
FindIndex(values, itemId) ==
    LET hits == {i \in 1..(Len(values) - 1) : At(values, i).id # "" /\ At(values, i).id = itemId}
    IN IF hits = {} THEN -1 ELSE CHOOSE i \in hits : \A j \in hits : i <= j

\* A row number that takes the array index for the sheet row.
RowNumberZeroBased(foundIndex) == foundIndex

\* rowNumber = foundIndex + 1: the sheet row of values[foundIndex]
RowNumber(foundIndex) == foundIndex + 1

\* parseInt(itemRow[5] || '0')
ExistingQty(itemRow) == itemRow.qty

\* sale.bulkItems && sale.bulkItems.length > 0
IsBulk(sale) == sale.nLines > 0

\* appliedPrice of the single-item branch:
\* parseFloat(sale.appliedPrice || sale.pricePerUnit || itemRow[6] || 0) || 0
AppliedPrice(sale, itemRow) ==
    OrZero(IF Truthy(sale.appliedPrice) THEN ParseFloat(sale.appliedPrice)
           ELSE IF Truthy(sale.pricePerUnit) THEN ParseFloat(sale.pricePerUnit)
           ELSE itemRow.price)

\* appliedPrice of the bulk branch: parseFloat(sale.appliedPrice || 0) || 0
BulkAppliedPrice(sale) == OrZero(ParseFloat(sale.appliedPrice))

\* total = (appliedPrice * sellQty).toFixed(2)
Total(appliedPrice, sellQty) == ToFixed2(Mul(appliedPrice, sellQty))

\* The checks of the single-item branch in the order of the code; "" when the
\* sale passes them all.
SingleError(sale, values) ==
    LET foundIndex == FindIndex(values, sale.itemId)
        sellQty == ParseInt(sale.quantitySold)
    IN IF sale.itemId = "" THEN "Item ID is required for non-bulk sales"
       ELSE IF foundIndex = -1 THEN "Item ID not found in Inventory"
       ELSE IF IsNaN(sellQty) \/ sellQty <= 0 THEN "Invalid quantitySold"
       ELSE IF Gt(sellQty, ExistingQty(At(values, foundIndex))) THEN "Insufficient stock"
       ELSE ""

\* sale.paymentMethod || 'Cash'
PaymentMethodOf(sale) == IF sale.paymentMethod = "" THEN "Cash" ELSE sale.paymentMethod

\* saleRow of the single-item branch
SingleSaleRow(r, sale, values, saleId) ==
    LET itemRow == At(values, FindIndex(values, sale.itemId))
        sellQty == ParseInt(sale.quantitySold)
        appliedPrice == AppliedPrice(sale, itemRow)
    IN [saleId |-> saleId, itemId |-> sale.itemId, qty |-> sellQty, price |-> appliedPrice,
        total |-> Total(appliedPrice, sellQty), pm |-> PaymentMethodOf(sale), by |-> r]

\* saleRow of the bulk branch
BulkSaleRow(r, sale, saleId) ==
    LET sellQty == ParseInt(sale.quantitySold)
        appliedPrice == BulkAppliedPrice(sale)
    IN [saleId |-> saleId, itemId |-> "BULK", qty |-> sellQty, price |-> appliedPrice,
        total |-> Total(appliedPrice, sellQty), pm |-> PaymentMethodOf(sale), by |-> r]

SaleRowOf(r, sale, values, saleId) ==
    IF IsBulk(sale) THEN BulkSaleRow(r, sale, saleId) ELSE SingleSaleRow(r, sale, values, saleId)

\* A loan row that is born settled.
LoanStatusPaid == "Paid"

\* loanRow[7]
LoanStatus == "Unpaid"

\* loanRow: loanId is `LOAN-${saleId}`, one loan id per sale id
LoanRowOf(r, saleRow) ==
    [loanId |-> saleRow.saleId, saleId |-> saleRow.saleId, amount |-> saleRow.total,
     status |-> LoanStatus, datePaid |-> NoDate, by |-> r]

\* A loop iteration without the stock check.
BulkStepUnchecked(values, bulkItem) ==
    LET foundIndex == FindIndex(values, bulkItem.itemId)
    IN IF foundIndex = -1 THEN [kind |-> "skip", foundIndex |-> -1, newQty |-> NaN]
       ELSE [kind |-> "write", foundIndex |-> foundIndex,
             newQty |-> Sub(ExistingQty(At(values, foundIndex)), ParseInt(bulkItem.qty))]

\* A loop iteration that throws for an item it does not find.
BulkStepStrict(values, bulkItem) ==
    LET foundIndex == FindIndex(values, bulkItem.itemId)
        qtyToDeduct == ParseInt(bulkItem.qty)
    IN IF foundIndex = -1 THEN [kind |-> "error", foundIndex |-> -1, newQty |-> NaN]
       ELSE LET existingQty == ExistingQty(At(values, foundIndex))
            IN IF Gt(qtyToDeduct, existingQty)
               THEN [kind |-> "error", foundIndex |-> foundIndex, newQty |-> NaN]
               ELSE [kind |-> "write", foundIndex |-> foundIndex,
                     newQty |-> Sub(existingQty, qtyToDeduct)]

\* One iteration of the loop over sale.bulkItems up to its store call: a line
\* whose item is not found is skipped, a line asking for more than the
\* snapshot holds throws, any other line writes its new quantity.
BulkStep(values, bulkItem) ==
    LET foundIndex == FindIndex(values, bulkItem.itemId)
        qtyToDeduct == ParseInt(bulkItem.qty)
    IN IF foundIndex = -1 THEN [kind |-> "skip", foundIndex |-> -1, newQty |-> NaN]
       ELSE LET existingQty == ExistingQty(At(values, foundIndex))
            IN IF Gt(qtyToDeduct, existingQty)
               THEN [kind |-> "error", foundIndex |-> foundIndex, newQty |-> NaN]
               ELSE [kind |-> "write", foundIndex |-> foundIndex,
                     newQty |-> Sub(existingQty, qtyToDeduct)]

\* ------------------------------------------------------------- recordSale
\* A bulk request's lines are drawn when the loop reaches them: the code reads
\* bulkItems[i] in iteration i and only bulkItems.length before.  sale.nLines
\* is that length and sale.bulkItems the lines read so far.
\* The quantity of a line is used only when its item is found.
BulkLines == {[itemId |-> i, qty |-> Num(n)] : i \in ItemIds, n \in 1..MaxQty}
             \cup {[itemId |-> UnknownId, qty |-> Num(1)], [itemId |-> "A", qty |-> Txt]}
BulkTerms == {[appliedPrice |-> Num(1999), paymentMethod |-> "Loan"],
              [appliedPrice |-> Num(1999), paymentMethod |-> ""]}
BulkSales == {[nLines |-> n, bulkItems |-> <<>>, itemId |-> "", quantitySold |-> Num(2),
               appliedPrice |-> t.appliedPrice, pricePerUnit |-> t.appliedPrice,
               paymentMethod |-> t.paymentMethod] :
                 n \in 1..MaxLines, t \in BulkTerms}

StoreCalls == {"appendSale", "appendLoan", "writeQty"}

Done(rq, result) == [rq EXCEPT !.pc = "done", !.result = result]

\* The end of a loop iteration: the next line, or the success response.
NextLine(rq) ==
    IF rq.idx = rq.sale.nLines THEN Done(rq, "ok")
    ELSE [rq EXCEPT !.pc = "line", !.idx = @ + 1]

\* What follows the appends of the sale row and the loan row.
AfterRecords(rq) ==
    IF IsBulk(rq.sale) THEN [rq EXCEPT !.pc = "line", !.idx = 1] ELSE [rq EXCEPT !.pc = "writeQty"]

\* A handler that never takes the loan branch.
IsLoanNever(sale) == FALSE

\* A loan test on the truthiness of the field: `if (sale.paymentMethod)`.
IsLoanTruthy(sale) == sale.paymentMethod # ""

\* `sale.paymentMethod === 'Loan'` (bulk), `paymentMethod === 'Loan'` (single)
IsLoan(sale) == sale.paymentMethod = "Loan"

\* Operations started so far, and bulk sales among them.
OpsStarted == Cardinality({r \in Req : req[r].pc # "idle"}) + cops
BulkStarted == Cardinality({r \in Req : req[r].pc # "idle" /\ IsBulk(req[r].sale)})

\* A recordSale request (slots are taken in order) from its inventory read,
\* values = (await sheets...get({range: 'Inventory'})).data.values, through the
\* synchronous code up to the append of the sale row.  The read may reject.
StartSaleFrom(r, inputs) ==
    /\ req[r].pc = "idle"
    /\ OpsStarted < MaxOps
    /\ IF r = 1 THEN TRUE ELSE req[r - 1].pc # "idle"
    /\ \E sale \in inputs, readOk \in BOOLEAN :
          /\ IsBulk(sale) => BulkStarted < MaxBulk
          /\ LET values == ReadAll(inv)
                 err == IF IsBulk(sale) THEN "" ELSE SingleError(sale, values)
                 rq == [IdleReq EXCEPT !.sale = sale]
             IN req' = [req EXCEPT ![r] =
                          IF ~readOk THEN Done(rq, "StoreError")
                          ELSE IF err # "" THEN Done([rq EXCEPT !.values = values, !.asRead = values], err)
                          ELSE [rq EXCEPT !.pc = "appendSale", !.values = values, !.asRead = values,
                                          !.saleId = now]]
    /\ UNCHANGED <<inv, sales, loans, warranty, now, items, claims, cl, cops, titles, ens>>

StartSale(r) == StartSaleFrom(r, SingleSales \cup BulkSales)

\* Single-item requests with every shape of quantity and of price field: a
\* quantity with a fraction, a price that is given as 0 and one that is absent.
WideQtys == {Txt, Absent} \cup {Num(n) : n \in -1..MaxQty} \cup {Frac(n) : n \in 0..1}
WidePrices == {Absent, Num(0), Num(1999)}
WideSales == {[nLines |-> 0, bulkItems |-> <<>>, itemId |-> i, quantitySold |-> q,
               appliedPrice |-> a, pricePerUnit |-> p, paymentMethod |-> m] :
                 i \in {"A", UnknownId}, q \in WideQtys, a \in WidePrices,
                 p \in {Absent, Num(1250)}, m \in {"", "Loan"}}

StartSingle(r) == StartSaleFrom(r, WideSales)

\* await sheets...append({range: 'Sales', ...saleRow})
AppendSale(r) ==
    /\ req[r].pc = "appendSale"
    /\ LET rq == [req[r] EXCEPT !.nSale = @ + 1]
       IN /\ sales' = AppendRow(sales, SaleRowOf(r, rq.sale, rq.values, rq.saleId))
          /\ req' = [req EXCEPT ![r] =
                       IF IsLoan(rq.sale) THEN [rq EXCEPT !.pc = "appendLoan"]
                       ELSE AfterRecords(rq)]
    /\ UNCHANGED <<inv, loans, warranty, now, items, claims, cl, cops, titles, ens>>

\* await sheets...append({range: 'Loans', ...loanRow})
AppendLoan(r) ==
    /\ req[r].pc = "appendLoan"
    /\ LET rq == [req[r] EXCEPT !.nLoan = @ + 1]
       IN /\ loans' = AppendRow(loans, LoanRowOf(r, SaleRowOf(r, rq.sale, rq.values, rq.saleId)))
          /\ req' = [req EXCEPT ![r] = AfterRecords(rq)]
    /\ UNCHANGED <<inv, sales, warranty, now, items, claims, cl, cops, titles, ens>>

\* The head of a bulk loop iteration, on the request's own snapshot.
BulkLine(r) ==
    /\ req[r].pc = "line"
    /\ \E bulkItem \in BulkLines :
          LET rq == [req[r] EXCEPT !.sale.bulkItems = Append(@, bulkItem)]
              b == BulkStep(rq.values, bulkItem)
          IN req' = [req EXCEPT ![r] =
                       CASE b.kind = "skip" -> NextLine(rq)
                         [] b.kind = "error" -> Done(rq, "Insufficient stock")
                         [] OTHER -> [rq EXCEPT !.pc = "writeQty"]]
    /\ UNCHANGED <<inv, sales, loans, warranty, now, items, claims, cl, cops, titles, ens>>

\* The quantity write the request is about to issue: found row and new quantity.
PendingWrite(rq) ==
    IF IsBulk(rq.sale) THEN BulkStep(rq.values, rq.sale.bulkItems[rq.idx])
    ELSE LET foundIndex == FindIndex(rq.values, rq.sale.itemId)
         IN [kind |-> "write", foundIndex |-> foundIndex,
             newQty |-> Sub(ExistingQty(At(rq.values, foundIndex)), ParseInt(rq.sale.quantitySold))]

\* A loop that leaves its snapshot as it was read.
SnapshotStale(values, foundIndex, newQty) == values

\* values[foundIndex][5] = String(newQty)
SnapshotAfter(values, foundIndex, newQty) == [values EXCEPT ![foundIndex + 1].qty = newQty]

\* await sheets...update({range: `Inventory!F${rowNumber}`, [[String(newQty)]]})
\* and, single-item, the response; bulk, `values[foundIndex][5] = String(newQty)`
\* and the end of the iteration.
WriteQty(r) ==
    /\ req[r].pc = "writeQty"
    /\ LET rq == req[r]
           b == PendingWrite(rq)
           rowNumber == RowNumber(b.foundIndex)
           wrote == [rq EXCEPT !.wr = Append(@, [line |-> rq.idx, row |-> rowNumber, val |-> b.newQty])]
       IN /\ inv' = WriteQtyCell(inv, rowNumber, b.newQty)
          /\ req' = [req EXCEPT ![r] =
                       IF IsBulk(rq.sale)
                       THEN NextLine([wrote EXCEPT !.values = SnapshotAfter(@, b.foundIndex, b.newQty)])
                       ELSE [Done(wrote, "ok") EXCEPT !.newQuantity = b.newQty]]
    /\ UNCHANGED <<sales, loans, warranty, now, items, claims, cl, cops, titles, ens>>

\* A catch block that answers success.
SaleStoreFailsSilent(r) ==
    /\ req[r].pc \in StoreCalls
    /\ req' = [req EXCEPT ![r] = Done(@, "ok")]
    /\ UNCHANGED <<inv, sales, loans, warranty, now, items, claims, cl, cops, titles, ens>>

\* A store call of the request rejects: the catch block answers 500 with the
\* store's message.
SaleStoreFails(r) ==
    /\ req[r].pc \in StoreCalls
    /\ req' = [req EXCEPT ![r] = Done(@, "StoreError")]
    /\ UNCHANGED <<inv, sales, loans, warranty, now, items, claims, cl, cops, titles, ens>>

\* The clock is read when a sale gets its id, a claim its id and a loan its
\* date paid: time is of interest while one of these can still happen.
ClockObserved ==
    \/ OpsStarted < MaxOps
    \/ cl.pc = "mpFetch"

\* Time passes.
Tick ==
    /\ now < MaxClock
    /\ ClockObserved
    /\ now' = now + 1
    /\ UNCHANGED <<inv, sales, loans, warranty, req, items, claims, cl, cops, titles, ens>>

\* ------------------------------------------------------------- the client
\* /api/sheets/read: {headers: values[0], data: values.slice(1)}
ReadData(table) == IF Len(table) = 0 THEN <<>> ELSE Tail(table)

\* this.items.findIndex(item => item[0] === itemId), 0-based, -1 if none
ItemIndex(cache, itemId) ==
    LET hits == {i \in 0..(Len(cache) - 1) : cache[i + 1].id = itemId}
    IN IF hits = {} THEN -1 ELSE CHOOSE i \in hits : \A j \in hits : i <= j

\* A lookup whose index starts at 0 instead of -1.
LoanIndexFromZero(data, loanId) ==
    LET hits == {i \in 0..(Len(data) - 1) : data[i + 1].loanId = loanId}
    IN IF hits = {} THEN 0 ELSE CHOOSE i \in hits : \A j \in hits : i <= j

\* The loop of markLoanAsPaid over the fetched loans, 0-based, -1 if none
LoanIndex(data, loanId) ==
    LET hits == {i \in 0..(Len(data) - 1) : data[i + 1].loanId = loanId}
    IN IF hits = {} THEN -1 ELSE CHOOSE i \in hits : \A j \in hits : i <= j

\* A row number that forgets the header row.
ClientRowNumberNoHeader(index) == index + 1

\* rowNumber = index + 2 of updateItem and markLoanAsPaid
ClientRowNumber(index) == index + 2

ClaimQtys == {Txt} \cup {Num(n) : n \in -1..MaxQty}
ClaimInputs == [itemId : ItemIds \cup {UnknownId}, quantity : ClaimQtys]
LoanIdInputs == 0..(MaxClock + 1)

IdleCl == [pc |-> "idle", op |-> "", itemId |-> "", loanId |-> NaN, currentQty |-> NaN,
           replaceQty |-> NaN, claimId |-> NaN, index |-> -1, newRow |-> InvHeader,
           datePaid |-> NoDate, result |-> "", n |-> 0]

ClDone(c, result) == [c EXCEPT !.pc = "done", !.result = result]

ClientCalls == {"claimAppend", "claimUpdate", "claimReload", "mpFetch", "mpUpdate"}

\* The cache is read by processClaim alone: a reload is of interest while a
\* claim can still start or is between its append and its update.
CacheObserved == OpsStarted < MaxOps \/ cl.pc = "claimAppend"

\* InventoryManager.loadInventory: the cache is replaced by the sheet's data rows.
LoadInventory ==
    /\ CacheObserved
    /\ items' = ReadData(ReadAll(inv))
    /\ UNCHANGED <<inv, sales, loans, warranty, now, req, claims, cl, cops, titles, ens>>

\* currentQty < replaceQty of processClaim
ClaimRejects(currentQty, replaceQty) == currentQty < replaceQty

\* WarrantyManager.processClaim up to its first store call: the product is
\* looked up in the manager's cache and the stock check uses the cached row.
ClaimStart ==
    /\ cl.pc \in {"idle", "done"}
    /\ OpsStarted < MaxOps
    /\ cops' = cops + 1
    /\ \E claimData \in ClaimInputs :
          LET index == ItemIndex(items, claimData.itemId)
              c == [IdleCl EXCEPT !.op = "claim", !.itemId = claimData.itemId, !.n = cops + 1]
          IN IF index = -1 THEN cl' = ClDone(c, "Product not found")
             ELSE LET currentQty == OrZero(items[index + 1].qty)
                      replaceQty == OrZero(ParseInt(claimData.quantity))
                      cq == [c EXCEPT !.currentQty = currentQty, !.replaceQty = replaceQty]
                  IN IF ClaimRejects(currentQty, replaceQty)
                     THEN cl' = ClDone(cq, "Insufficient inventory")
                     ELSE cl' = [cq EXCEPT !.pc = "claimAppend", !.claimId = now]
    /\ UNCHANGED <<inv, sales, loans, warranty, now, req, items, claims, titles, ens>>

\* rowData of processClaim
ClaimRowOf(c) ==
    [claimId |-> c.claimId, itemId |-> c.itemId, qty |-> c.replaceQty, status |-> "Completed", by |-> c.n]

\* newRow of updateItem as updateQuantity calls it: every column from the
\* cached row, the quantity replaced
NewRowOf(item, newQuantity) == [id |-> item.id, qty |-> newQuantity, price |-> item.price]

\* await sheetsAPI.appendRow(rowData, 'Warranty'), then updateQuantity up to
\* the updateRange of updateItem; updateQuantity returns false, writing
\* nothing, when the cache no longer holds the item.
ClaimAppend ==
    /\ cl.pc = "claimAppend"
    /\ warranty' = AppendRow(warranty, ClaimRowOf(cl))
    /\ LET index == ItemIndex(items, cl.itemId)
           newQuantity == cl.currentQty - cl.replaceQty
       IN cl' = IF index = -1 THEN [cl EXCEPT !.pc = "claimReload"]
                ELSE [cl EXCEPT !.pc = "claimUpdate", !.index = index,
                                !.newRow = NewRowOf(items[index + 1], newQuantity)]
    /\ UNCHANGED <<inv, sales, loans, now, req, items, claims, cops, titles, ens>>

\* await sheetsAPI.updateRange(`Inventory!A${rowNumber}:J${rowNumber}`, [newRow]),
\* then this.items[itemIndex] = newRow
ClaimUpdate ==
    /\ cl.pc = "claimUpdate"
    /\ inv' = [inv EXCEPT ![ClientRowNumber(cl.index)] = cl.newRow]
    /\ items' = [items EXCEPT ![cl.index + 1] = cl.newRow]
    /\ cl' = [cl EXCEPT !.pc = "claimReload"]
    /\ UNCHANGED <<sales, loans, warranty, now, req, claims, cops, titles, ens>>

\* await this.loadClaims(), then the success result
ClaimReload ==
    /\ cl.pc = "claimReload"
    /\ claims' = ReadData(ReadAll(warranty))
    /\ cl' = ClDone(cl, "ok")
    /\ UNCHANGED <<inv, sales, loans, warranty, now, req, items, cops, titles, ens>>

\* InventoryUI.markLoanAsPaid, confirmed by the user
MarkPaidStart ==
    /\ cl.pc \in {"idle", "done"}
    /\ OpsStarted < MaxOps
    /\ cops' = cops + 1
    /\ \E loanId \in LoanIdInputs :
          cl' = [IdleCl EXCEPT !.pc = "mpFetch", !.op = "markPaid", !.loanId = loanId, !.n = cops + 1]
    /\ UNCHANGED <<inv, sales, loans, warranty, now, req, items, claims, titles, ens>>

\* loans = (await sheetsAPI.fetchData('Loans')).data, the lookup, and the
\* new status and date of the found row
MarkPaidFetch ==
    /\ cl.pc = "mpFetch"
    /\ LET loanIndex == LoanIndex(ReadData(ReadAll(loans)), cl.loanId)
       IN cl' = IF loanIndex = -1 THEN ClDone(cl, "Loan not found")
                ELSE [cl EXCEPT !.pc = "mpUpdate", !.index = loanIndex, !.datePaid = DateOf(now)]
    /\ UNCHANGED <<inv, sales, loans, warranty, now, req, items, claims, cops, titles, ens>>

\* await sheetsAPI.updateRange(`Loans!H${rowNumber}:I${rowNumber}`, [['Paid', date]])
MarkPaidUpdate ==
    /\ cl.pc = "mpUpdate"
    /\ loans' = [loans EXCEPT ![ClientRowNumber(cl.index)].status = "Paid",
                              ![ClientRowNumber(cl.index)].datePaid = cl.datePaid]
    /\ cl' = ClDone(cl, "ok")
    /\ UNCHANGED <<inv, sales, warranty, now, req, items, claims, cops, titles, ens>>

\* InventoryManager.updateItem in another browser, whose cache was loaded just
\* before: the item's row is rewritten with a new price.
EditPrices == {3000}
EditItem ==
    /\ OpsStarted < MaxOps
    /\ cops' = cops + 1
    /\ \E itemId \in ItemIds, price \in EditPrices :
          LET cache == ReadData(ReadAll(inv))
              itemIndex == ItemIndex(cache, itemId)
          IN /\ itemIndex # -1
             /\ cache[itemIndex + 1].price # price
             /\ inv' = [inv EXCEPT ![ClientRowNumber(itemIndex)] =
                                      [cache[itemIndex + 1] EXCEPT !.price = price]]
    /\ UNCHANGED <<sales, loans, warranty, now, req, items, claims, cl, titles, ens>>

\* InventoryManager.deleteItem in another browser, whose cache was loaded just
\* before: POST /api/sheets/delete with rowIndex = itemIndex + 1, and the
\* handler's deleteRange of the 0-based rows rowIndex..rowIndex + 1, which
\* shifts the rows below up by one.
DeleteRange(table, rowIndex) ==
    IF rowIndex + 1 > Len(table) THEN table
    ELSE SubSeq(table, 1, rowIndex) \o SubSeq(table, rowIndex + 2, Len(table))
ThirdId == "C"
DeleteItem ==
    /\ OpsStarted < MaxOps
    /\ cops' = cops + 1
    /\ \E itemId \in ItemIds \cup {ThirdId} :
          LET cache == ReadData(ReadAll(inv))
              itemIndex == ItemIndex(cache, itemId)
          IN /\ itemIndex # -1
             /\ inv' = DeleteRange(inv, itemIndex + 1)
    /\ UNCHANGED <<sales, loans, warranty, now, req, items, claims, cl, titles, ens>>

\* A store call of the client's operation rejects.  processClaim rethrows and
\* markLoanAsPaid shows the error; loadClaims swallows it and empties its list.
ClientStoreFails ==
    /\ cl.pc \in ClientCalls
    /\ IF cl.pc = "claimReload"
       THEN claims' = <<>> /\ cl' = ClDone(cl, "ok")
       ELSE claims' = claims /\ cl' = ClDone(cl, "StoreError")
    /\ UNCHANGED <<inv, sales, loans, warranty, now, req, items, cops, titles, ens>>

\* ------------------------------------------------------------- ensureSheetExists
\* The handler calls ensureSheetExists for Sales and then for Loans before it
\* reads the Inventory.  While both sheets exist each call is one metadata read
\* that changes nothing.  SpecTables follows handlers on a spreadsheet that may
\* lack the sheets, through both calls and up to their appends of a Sales row
\* and, for a sale paid by Loan, of a Loans row.
Callers == 1..MaxCallers

\* failed counts the store calls of the handler that rejected.
\* pm is the payment method of the handler's sale.
IdleCaller == [pc |-> "idle", name |-> "", failed |-> 0, result |-> "", pm |-> ""]

HeaderOf(name) == IF name = "Sales" THEN SalesHeader ELSE LoansHeader

\* values.update of `${sheetName}!A1` with one row
WriteFirstRow(table, row) == IF Len(table) = 0 THEN <<row>> ELSE [table EXCEPT ![1] = row]

\* ensureSheetExists returns: the next call of the handler, or its Sales append.
Returned(e) ==
    IF e.name = "Sales" THEN [e EXCEPT !.name = "Loans", !.pc = "get"]
    ELSE [e EXCEPT !.name = "", !.pc = "append"]

\* A request arrives (slots are taken in order): ensureSheetExists(.., 'Sales', ..)
EnsureStart(h) ==
    /\ ens[h].pc = "idle"
    /\ IF h = 1 THEN TRUE ELSE ens[h - 1].pc # "idle"
    /\ \E pm \in {"Cash", "Loan"} :
          ens' = [ens EXCEPT ![h] = [IdleCaller EXCEPT !.pc = "get", !.name = "Sales", !.pm = pm]]
    /\ UNCHANGED <<inv, sales, loans, warranty, now, req, items, claims, cl, cops, titles>>

\* await sheets.spreadsheets.get, and sheetExists
EnsureGet(h) ==
    /\ ens[h].pc = "get"
    /\ LET sheetExists == ens[h].name \in titles
       IN ens' = [ens EXCEPT ![h] = IF sheetExists THEN Returned(@) ELSE [@ EXCEPT !.pc = "add"]]
    /\ UNCHANGED <<inv, sales, loans, warranty, now, req, items, claims, cl, cops, titles>>

\* await sheets.spreadsheets.batchUpdate({addSheet}); the store rejects a
\* title that exists by now, and the catch block swallows the rejection.
EnsureAdd(h) ==
    /\ ens[h].pc = "add"
    /\ IF ens[h].name \in titles
       THEN /\ titles' = titles
            /\ ens' = [ens EXCEPT ![h] = Returned([@ EXCEPT !.failed = @ + 1])]
       ELSE /\ titles' = titles \cup {ens[h].name}
            /\ ens' = [ens EXCEPT ![h].pc = "hdr"]
    /\ UNCHANGED <<inv, sales, loans, warranty, now, req, items, claims, cl, cops>>

\* await sheets.spreadsheets.values.update({range: `${sheetName}!A1`, [headers]})
EnsureHeader(h) ==
    /\ ens[h].pc = "hdr"
    /\ IF ens[h].name = "Sales"
       THEN sales' = WriteFirstRow(sales, HeaderOf("Sales")) /\ loans' = loans
       ELSE loans' = WriteFirstRow(loans, HeaderOf("Loans")) /\ sales' = sales
    /\ ens' = [ens EXCEPT ![h] = Returned(@)]
    /\ UNCHANGED <<inv, warranty, now, req, items, claims, cl, cops, titles>>

\* A store call of ensureSheetExists rejects:
\* catch (error) { console.error(...) } and the handler goes on.
EnsureFails(h) ==
    /\ ens[h].pc \in {"get", "add", "hdr"}
    /\ ens' = [ens EXCEPT ![h] = Returned([@ EXCEPT !.failed = @ + 1])]
    /\ UNCHANGED <<inv, sales, loans, warranty, now, req, items, claims, cl, cops, titles>>

\* The handler's append of its Sales row: after the last row of the sheet, or
\* rejected when there is no such sheet (the handler answers 500).  A sale paid
\* by Loan goes on to the append of its loan row.
CallerRow(h) ==
    [saleId |-> h, itemId |-> "A", qty |-> 1, price |-> 2500, total |-> 250, pm |-> ens[h].pm, by |-> h]
CallerAppend(h) ==
    /\ ens[h].pc = "append"
    /\ IF "Sales" \in titles
       THEN /\ sales' = AppendRow(sales, CallerRow(h))
            /\ ens' = [ens EXCEPT ![h] = IF ens[h].pm = "Loan" THEN [@ EXCEPT !.pc = "appendLoan"]
                                          ELSE [@ EXCEPT !.pc = "done", !.result = "ok"]]
       ELSE /\ sales' = sales
            /\ ens' = [ens EXCEPT ![h] = [@ EXCEPT !.pc = "done", !.result = "StoreError",
                                                    !.failed = @ + 1]]
    /\ UNCHANGED <<inv, loans, warranty, now, req, items, claims, cl, cops, titles>>

\* The handler's append of its loan row.
CallerAppendLoan(h) ==
    /\ ens[h].pc = "appendLoan"
    /\ IF "Loans" \in titles
       THEN /\ loans' = AppendRow(loans, LoanRowOf(h, CallerRow(h)))
            /\ ens' = [ens EXCEPT ![h] = [@ EXCEPT !.pc = "done", !.result = "ok"]]
       ELSE /\ loans' = loans
            /\ ens' = [ens EXCEPT ![h] = [@ EXCEPT !.pc = "done", !.result = "StoreError",
                                                    !.failed = @ + 1]]
    /\ UNCHANGED <<inv, sales, warranty, now, req, items, claims, cl, cops, titles>>

\* A spreadsheet with its Inventory; the Sales and the Loans sheet each exist
\* with their header row or do not exist.
InitTables ==
    /\ \E present \in SUBSET {"Sales", "Loans"} :
          /\ titles = {"Inventory", "Warranty"} \cup present
          /\ sales = IF "Sales" \in present THEN <<SalesHeader>> ELSE <<>>
          /\ loans = IF "Loans" \in present THEN <<LoansHeader>> ELSE <<>>
    /\ inv = <<InvHeader, [id |-> "A", qty |-> MaxQty, price |-> 2500]>>
    /\ warranty = <<WarrantyHeader>>
    /\ now = 1
    /\ req = [r \in Req |-> IdleReq]
    /\ items = ReadData(inv)
    /\ claims = ReadData(warranty)
    /\ cl = IdleCl
    /\ cops = 0
    /\ ens = [h \in Callers |-> IdleCaller]

NextTables ==
    \/ \E h \in Callers : EnsureStart(h)
    \/ \E h \in Callers : EnsureGet(h)
    \/ \E h \in Callers : EnsureAdd(h)
    \/ \E h \in Callers : EnsureHeader(h)
    \/ \E h \in Callers : EnsureFails(h)
    \/ \E h \in Callers : CallerAppend(h)
    \/ \E h \in Callers : CallerAppendLoan(h)

\* ------------------------------------------------------------- the system
InitStore ==
    /\ inv = <<InvHeader, [id |-> "A", qty |-> MaxQty, price |-> 2500],
                          [id |-> "B", qty |-> 1, price |-> 1005]>>
    /\ sales = <<SalesHeader, [saleId |-> 0, itemId |-> "A", qty |-> 1, price |-> 2500,
                               total |-> 250, pm |-> "Loan", by |-> 0]>>
    /\ loans = <<LoansHeader, [loanId |-> 0, saleId |-> 0, amount |-> 250,
                               status |-> "Unpaid", datePaid |-> NoDate, by |-> 0]>>
    /\ warranty = <<WarrantyHeader>>
    /\ now = 1

\* The page has loaded: the client's caches hold the sheets' data rows.
Init ==
    /\ InitStore
    /\ req = [r \in Req |-> IdleReq]
    /\ items = ReadData(inv)
    /\ claims = ReadData(warranty)
    /\ cl = IdleCl
    /\ cops = 0
    /\ titles = {"Inventory", "Sales", "Loans", "Warranty"}
    /\ ens = [h \in Callers |-> IdleCaller]

Next ==
    \/ \E r \in Req : StartSale(r)
    \/ \E r \in Req : AppendSale(r)
    \/ \E r \in Req : AppendLoan(r)
    \/ \E r \in Req : BulkLine(r)
    \/ \E r \in Req : WriteQty(r)
    \/ \E r \in Req : SaleStoreFails(r)
    \/ LoadInventory
    \/ ClaimStart
    \/ ClaimAppend
    \/ ClaimUpdate
    \/ ClaimReload
    \/ MarkPaidStart
    \/ MarkPaidFetch
    \/ MarkPaidUpdate
    \/ ClientStoreFails
    \/ EditItem
    \/ Tick

\* An Inventory of three items, and the sales and claims of one page with the
\* deletes of another.
InitDelete ==
    /\ inv = <<InvHeader, [id |-> "A", qty |-> MaxQty, price |-> 2500],
                          [id |-> "B", qty |-> 1, price |-> 1005],
                          [id |-> ThirdId, qty |-> MaxQty, price |-> 1500]>>
    /\ sales = <<SalesHeader>>
    /\ loans = <<LoansHeader>>
    /\ warranty = <<WarrantyHeader>>
    /\ now = 1
    /\ req = [r \in Req |-> IdleReq]
    /\ items = ReadData(inv)
    /\ claims = ReadData(warranty)
    /\ cl = IdleCl
    /\ cops = 0
    /\ titles = {"Inventory", "Sales", "Loans", "Warranty"}
    /\ ens = [h \in Callers |-> IdleCaller]

NextDelete ==
    \/ \E r \in Req : StartSale(r)
    \/ \E r \in Req : AppendSale(r)
    \/ \E r \in Req : AppendLoan(r)
    \/ \E r \in Req : BulkLine(r)
    \/ \E r \in Req : WriteQty(r)
    \/ \E r \in Req : SaleStoreFails(r)
    \/ ClaimStart
    \/ ClaimAppend
    \/ ClaimUpdate
    \/ ClaimReload
    \/ ClientStoreFails
    \/ DeleteItem
    \/ Tick

\* The page has loaded on a spreadsheet that had no Warranty sheet: the read
\* of loadClaims made ensureSheetExists add the sheet, with no header row since
\* the read handler has no headers for Warranty, and returned no rows.
InitWarranty ==
    /\ inv = <<InvHeader, [id |-> "A", qty |-> MaxQty, price |-> 2500],
                          [id |-> "B", qty |-> 1, price |-> 1005]>>
    /\ sales = <<SalesHeader>>
    /\ loans = <<LoansHeader>>
    /\ warranty = <<>>
    /\ now = 1
    /\ req = [r \in Req |-> IdleReq]
    /\ items = ReadData(inv)
    /\ claims = ReadData(warranty)
    /\ cl = IdleCl
    /\ cops = 0
    /\ titles = {"Inventory", "Sales", "Loans", "Warranty"}
    /\ ens = [h \in Callers |-> IdleCaller]

\* The warranty claims of the page.
NextWarranty ==
    \/ LoadInventory
    \/ ClaimStart
    \/ ClaimAppend
    \/ ClaimUpdate
    \/ ClaimReload
    \/ ClientStoreFails
    \/ Tick

\* The sale handler on its own, over the wide single-item requests.
NextSingle ==
    \/ \E r \in Req : StartSingle(r)
    \/ \E r \in Req : AppendSale(r)
    \/ \E r \in Req : AppendLoan(r)
    \/ \E r \in Req : WriteQty(r)
    \/ \E r \in Req : SaleStoreFails(r)
    \/ Tick

vars == <<inv, sales, loans, warranty, now, req, items, claims, cl, cops, titles, ens>>

Spec == Init /\ [][Next]_vars

SpecSingle == Init /\ [][NextSingle]_vars

SpecDelete == InitDelete /\ [][NextDelete]_vars

SpecWarranty == InitWarranty /\ [][NextWarranty]_vars

SpecTables == InitTables /\ [][NextTables]_vars

\* ------------------------------------------------------------- properties
\* The data rows of a table that request r appended.
RowsBy(table, r) == {i \in 2..Len(table) : table[i].by = r}
SaleRowBy(r) == sales[CHOOSE i \in RowsBy(sales, r) : TRUE]

\* The quantity cell of the row that holds itemId (item ids are unique).
QtyCell(table, itemId) == table[CHOOSE i \in 2..Len(table) : table[i].id = itemId].qty
Listed(table, itemId) == \E i \in 2..Len(table) : table[i].id = itemId

\* cents is mills rounded to the nearest cent
Rounded(cents, mills) == mills - 5 < 10 * cents /\ 10 * cents <= mills + 5

SingleReq(r) == req[r].pc # "idle" /\ req[r].sale.nLines = 0
BulkReq(r) == req[r].pc # "idle" /\ req[r].sale.nLines > 0
Finished(r) == req[r].pc = "done"
IssuedNothing(rq) == rq.nSale = 0 /\ rq.nLoan = 0 /\ rq.wr = <<>>

\* The request asks for more of its item than the quantity it read.
SingleOversold(r) ==
    LET rq == req[r]
    IN /\ SingleReq(r) /\ Finished(r)
       /\ Listed(rq.asRead, rq.sale.itemId)
       /\ rq.sale.quantitySold.k = "num"
       /\ QtyCell(rq.asRead, rq.sale.itemId) # NaN
       /\ rq.sale.quantitySold.v > QtyCell(rq.asRead, rq.sale.itemId)

\* C1: a single-item sale of an existing item with 0 < quantitySold <=
\* existingQty that completes successfully leaves existingQty - quantitySold in
\* the item's quantity cell, answers newQuantity = existingQty - quantitySold,
\* and has appended the one sale row whose Total is appliedPrice * quantitySold
\* rounded to two decimals.
C1_Step(r) ==
    LET rq == req[r]
        q == rq.sale.quantitySold.v
        e == QtyCell(rq.asRead, rq.sale.itemId)
    IN (/\ SingleReq(r) /\ ~Finished(r)
        /\ req'[r].pc = "done" /\ req'[r].result = "ok"
        /\ Listed(rq.asRead, rq.sale.itemId)
        /\ rq.sale.quantitySold.k = "num" /\ e # NaN /\ 0 < q /\ q <= e)
       => /\ QtyCell(inv', rq.sale.itemId) = e - q
          /\ req'[r].newQuantity = e - q
          /\ Cardinality(RowsBy(sales', r)) = 1
          /\ LET row == sales'[CHOOSE i \in RowsBy(sales', r) : TRUE]
             IN row.itemId = rq.sale.itemId /\ row.qty = q /\ Rounded(row.total, row.price * q)
C1_SingleSaleSuccess == [][\A r \in Req : C1_Step(r)]_vars
C1_Witness ==
    \E r \in Req : /\ SingleReq(r) /\ Finished(r) /\ req[r].result = "ok"
                    /\ req[r].newQuantity = 1 /\ SaleRowBy(r).total = 200

C3_LoanRecordForLoanSale ==
    \A r \in Req :
       (Finished(r) /\ req[r].sale.paymentMethod = "Loan" /\ req[r].nSale = 1)
       => /\ Cardinality(RowsBy(loans, r)) = 1
          /\ \A i \in RowsBy(loans, r) :
                /\ loans[i].amount = SaleRowBy(r).total /\ loans[i].saleId = SaleRowBy(r).saleId
                /\ loans[i].status = "Unpaid" \/ loans[i].datePaid # NoDate

\* C4: a sale whose payment method is anything but Loan, the absent method
\* included, has no loan row.
C4_NoLoanRecordUnlessLoan ==
    \A r \in Req :
       (req[r].pc # "idle" /\ req[r].sale.paymentMethod # "Loan")
       => req[r].nLoan = 0 /\ RowsBy(loans, r) = {}
C4_Witness ==
    \E r \in Req : /\ Finished(r) /\ req[r].result = "ok" /\ req[r].sale.paymentMethod = "GCash"
                    /\ RowsBy(sales, r) # {}

\* C5 as stated: every quantity cell of the Inventory holds a non-negative
\* integer in every reachable state.
C5_QuantityNonNegative == \A i \in 2..Len(inv) : inv[i].qty \in Nat

\* The quantity lines 1..k of a bulk sale ask of itemId.
RECURSIVE SumQty(_, _, _)
SumQty(lines, itemId, k) ==
    IF k = 0 THEN 0
    ELSE SumQty(lines, itemId, k - 1) + (IF lines[k].itemId = itemId THEN lines[k].qty.v ELSE 0)

\* Every line read so far names an item of the rows read and the lines
\* together ask no more of an item than the rows read hold.
WellStocked(rq) ==
    \A k \in DOMAIN rq.sale.bulkItems :
       LET line == rq.sale.bulkItems[k]
       IN /\ Listed(rq.asRead, line.itemId)
          /\ line.qty.k = "num"
          /\ QtyCell(rq.asRead, line.itemId) # NaN
          /\ SumQty(rq.sale.bulkItems, line.itemId, k) <= QtyCell(rq.asRead, line.itemId)

\* C6: a bulk sale whose lines all name existing items with sufficient stock
\* succeeds (unless a store call rejects) with its sale id, having appended
\* exactly one sale row, of item id BULK and with the rounded total, and having
\* written for each line its item's quantity less the line's quantity.
C6_BulkSaleSuccess ==
    \A r \in Req :
       LET rq == req[r]
           lines == rq.sale.bulkItems
       IN (BulkReq(r) /\ Finished(r) /\ WellStocked(rq) /\ rq.result # "StoreError")
          => /\ rq.result = "ok"
             /\ Len(lines) = rq.sale.nLines
             /\ Cardinality(RowsBy(sales, r)) = 1
             /\ SaleRowBy(r).itemId = "BULK"
             /\ SaleRowBy(r).saleId = rq.saleId
             /\ Rounded(SaleRowBy(r).total, SaleRowBy(r).price * rq.sale.quantitySold.v)
             /\ Len(rq.wr) = Len(lines)
             /\ \A k \in DOMAIN rq.wr :
                   /\ rq.wr[k].line = k
                   /\ inv[rq.wr[k].row].id = lines[k].itemId
                   /\ rq.wr[k].val = QtyCell(rq.asRead, lines[k].itemId) - SumQty(lines, lines[k].itemId, k)
C6_Witness ==
    \E r \in Req : /\ BulkReq(r) /\ Finished(r) /\ req[r].result = "ok"
                    /\ WellStocked(req[r]) /\ Len(req[r].wr) = 2
                    /\ req[r].sale.bulkItems[1].itemId # req[r].sale.bulkItems[2].itemId

\* C7: a bulk line that asks for more than the snapshot holds of its item ends
\* the request with the insufficient-stock error and no store call; the request
\* has then written the quantities of the earlier lines whose items were found
\* and of no other line, its sale row and (paid by Loan) its loan row stay
\* appended, and a finished request does nothing more.
C7_Step(r) ==
    LET rq == req[r]
        line == req'[r].sale.bulkItems[rq.idx]
    IN /\ (rq.pc = "line" /\ req'[r] # rq
           /\ Listed(rq.values, line.itemId) /\ line.qty.k = "num"
           /\ QtyCell(rq.values, line.itemId) # NaN
           /\ line.qty.v > QtyCell(rq.values, line.itemId))
          => /\ req'[r].pc = "done" /\ req'[r].result = "Insufficient stock"
             /\ req'[r].wr = rq.wr
             /\ inv' = inv /\ sales' = sales /\ loans' = loans
       /\ Finished(r) => req'[r] = rq
C7_Aborted(r) == BulkReq(r) /\ Finished(r) /\ req[r].result = "Insufficient stock"
C7_State ==
    \A r \in Req :
       LET rq == req[r]
       IN C7_Aborted(r)
          => /\ Len(rq.sale.bulkItems) = rq.idx
             /\ {rq.wr[k].line : k \in DOMAIN rq.wr}
                  = {j \in 1..(rq.idx - 1) : Listed(rq.asRead, rq.sale.bulkItems[j].itemId)}
             /\ Len(rq.wr) = Cardinality({rq.wr[k].line : k \in DOMAIN rq.wr})
             /\ Cardinality(RowsBy(sales, r)) = 1
             /\ Cardinality(RowsBy(loans, r)) = (IF rq.sale.paymentMethod = "Loan" THEN 1 ELSE 0)
C8_Step ==
    /\ (/\ cops' = cops + 1 /\ cl'.op = "claim" /\ cl'.n = cops + 1
        /\ Listed(inv, cl'.itemId) /\ QtyCell(inv, cl'.itemId) # NaN
        /\ cl'.replaceQty > QtyCell(inv, cl'.itemId))
       => cl'.pc = "done" /\ cl'.result = "Insufficient inventory"
    /\ (cl.pc = "claimUpdate" /\ cl'.pc = "claimReload")
       => QtyCell(inv', cl.itemId) = QtyCell(inv, cl.itemId) - cl.replaceQty
    /\ (cl.op = "claim" /\ cl.pc # "done" /\ cl'.pc = "done" /\ cl'.result = "ok")
       => /\ Cardinality(RowsBy(warranty', cl.n)) = 1
          /\ \A i \in RowsBy(warranty', cl.n) : warranty'[i].status = "Completed"
C8_ClaimDecrements == [][C8_Step]_vars

\* C9 as stated: the date paid of a loan that is Paid never changes, and the
\* loan stays Paid.
C9_PaidDateUnchanged ==
    [][\A i \in 2..Len(loans) :
          loans[i].status = "Paid"
          => loans'[i].status = "Paid" /\ loans'[i].datePaid = loans[i].datePaid]_vars

\* C10: a loan row is appended Unpaid, its status changes only from Unpaid to
\* Paid and only in the update of markLoanAsPaid, and a Paid loan stays Paid.
C10_Step ==
    /\ Len(loans') >= Len(loans)
    /\ \A i \in 2..Len(loans) :
          loans'[i].status # loans[i].status
          => /\ loans[i].status = "Unpaid" /\ loans'[i].status = "Paid"
             /\ cl.op = "markPaid" /\ cl.pc = "mpUpdate" /\ cl'.pc = "done"
    /\ \A i \in (Len(loans) + 1)..Len(loans') : loans'[i].status = "Unpaid"
C10_LoanStatusMonotone == [][C10_Step]_vars
C10_Witness == \E i \in 2..Len(loans) : loans[i].by # 0 /\ loans[i].status = "Paid"

\* C11: markLoanAsPaid with a loan id that no Loans row holds ends with the
\* not-found error (or the error of a rejected fetch) and changes nothing in
\* the store; the finished call takes no further step.
C11_Step ==
    /\ (/\ cl.op = "markPaid" /\ cl.pc = "mpFetch" /\ cl' # cl
        /\ \A i \in 2..Len(loans) : loans[i].loanId # cl.loanId)
       => /\ cl'.pc = "done" /\ cl'.result \in {"Loan not found", "StoreError"}
          /\ <<inv, sales, loans, warranty>>' = <<inv, sales, loans, warranty>>
    /\ (cl.op = "markPaid" /\ cl.pc = "done" /\ cl' # cl) => cops' = cops + 1
C11_MarkPaidNotFound == [][C11_Step]_vars
C11_Witness == cl.op = "markPaid" /\ cl.pc = "done" /\ cl.result = "Loan not found"

\* Two single-item sales of one item that both succeeded after reading the
\* same quantity of it.
BothReadSame(r1, r2) ==
    /\ r1 # r2 /\ SingleReq(r1) /\ SingleReq(r2)
    /\ req[r1].sale.itemId = req[r2].sale.itemId
    /\ req[r1].asRead # <<>> /\ req[r2].asRead # <<>>
    /\ Listed(req[r1].asRead, req[r1].sale.itemId)
    /\ QtyCell(req[r1].asRead, req[r1].sale.itemId) = QtyCell(req[r2].asRead, req[r2].sale.itemId)

\* C12: when a single-item sale writes its quantity after another sale of the
\* same item that read the same quantity has succeeded, the write succeeds too
\* and leaves the quantity read less the writer's own quantity only: the two
\* Sales rows together record more than the item's quantity has dropped.
C12_Step(r1, r2) ==
    LET item == req[r2].sale.itemId
        e == QtyCell(req[r2].asRead, item)
    IN (/\ BothReadSame(r1, r2)
        /\ Finished(r1) /\ req[r1].result = "ok"
        /\ req[r2].pc = "writeQty" /\ req'[r2].pc = "done" /\ req'[r2].result = "ok")
       => /\ QtyCell(inv', item) = e - req[r2].sale.quantitySold.v
          /\ RowsBy(sales', r1) # {} /\ RowsBy(sales', r2) # {}
          /\ sales'[CHOOSE i \in RowsBy(sales', r1) : TRUE].qty
               + sales'[CHOOSE i \in RowsBy(sales', r2) : TRUE].qty > e - QtyCell(inv', item)
InEnsure(h, name) == ens[h].name = name /\ ens[h].pc \in {"get", "add", "hdr"}
PastEnsure(h, name) ==
    \/ ens[h].pc \in {"append", "appendLoan", "done"}
    \/ name = "Sales" /\ ens[h].name = "Loans"
TableOf(name) == IF name = "Sales" THEN sales ELSE loans

\* C13 as stated (its last clause): once calls of ensureSheetExists for a name
\* have returned and none is in progress, the table of that name has the header
\* as its first record.
C13_EnsureLeavesHeader ==
    \A name \in {"Sales", "Loans"} :
       (/\ \E h \in Callers : PastEnsure(h, name)
        /\ \A h \in Callers : ~InEnsure(h, name)
        /\ name \in titles)
       => Len(TableOf(name)) >= 1 /\ TableOf(name)[1] = HeaderOf(name)

\* C14 as stated (its first clause): a handler one of whose store calls
\* rejected has been aborted and has answered with the store's error.
C14_FailureAborts ==
    \A h \in Callers : ens[h].failed > 0 => ens[h].pc = "done" /\ ens[h].result = "StoreError"

\* C15: a request appends its loan row only after its sale row and before any
\* quantity write, and issues a quantity write only after its sale row and,
\* paid by Loan, its loan row are in the store; single-item and bulk alike.
C15_Step(r) ==
    LET rq == req[r]
    IN /\ req'[r].nSale > rq.nSale => rq.nSale = 0 /\ rq.nLoan = 0 /\ rq.wr = <<>>
       /\ req'[r].nLoan > rq.nLoan
          => rq.nLoan = 0 /\ rq.wr = <<>> /\ rq.nSale = 1 /\ RowsBy(sales, r) # {}
       /\ Len(req'[r].wr) > Len(rq.wr)
          => /\ rq.nSale = 1 /\ RowsBy(sales, r) # {}
             /\ rq.sale.paymentMethod = "Loan" => rq.nLoan = 1 /\ RowsBy(loans, r) # {}
C15_WriteOrder == [][\A r \in Req : C15_Step(r)]_vars
C15_Witness ==
    \E r1, r2 \in Req :
       /\ BulkReq(r1) /\ req[r1].sale.paymentMethod = "Loan" /\ Len(req[r1].wr) = 2
       /\ SingleReq(r2) /\ req[r2].sale.paymentMethod = "Loan" /\ Len(req[r2].wr) = 1

\* The quantity write of a single-item sale has rejected.
C16_WriteFailed(r) ==
    /\ SingleReq(r) /\ Finished(r)
    /\ req[r].nSale = 1 /\ req[r].wr = <<>>
    /\ req[r].sale.paymentMethod = "Loan" => req[r].nLoan = 1

\* C16: when the quantity write of a single-item sale rejects after the
\* appends, the step changes no table (the quantity stays as it was, no
\* compensating write), the caller gets the error and not success, the
\* appended rows stay in the store, and the request does nothing more.
C16_Step(r) ==
    /\ (SingleReq(r) /\ req[r].pc = "writeQty" /\ req'[r].pc = "done" /\ req'[r].wr = req[r].wr)
       => /\ req'[r].result = "StoreError"
          /\ <<inv, sales, loans, warranty>>' = <<inv, sales, loans, warranty>>
    /\ C16_WriteFailed(r) => req'[r] = req[r]
C16_State ==
    \A r \in Req :
       C16_WriteFailed(r)
       => /\ req[r].result = "StoreError"
          /\ Cardinality(RowsBy(sales, r)) = 1
          /\ Cardinality(RowsBy(loans, r)) = req[r].nLoan
C17_Step(r) ==
    LET rq == req[r]
    IN (/\ rq.pc = "line" /\ req'[r] # rq
        /\ ~Listed(rq.values, req'[r].sale.bulkItems[rq.idx].itemId))
       => /\ <<inv, sales, loans, warranty>>' = <<inv, sales, loans, warranty>>
          /\ req'[r].wr = rq.wr
          /\ IF rq.idx = rq.sale.nLines
             THEN req'[r].pc = "done" /\ req'[r].result = "ok"
             ELSE req'[r].pc = "line" /\ req'[r].idx = rq.idx + 1
C17_State ==
    \A r \in Req :
       (BulkReq(r) /\ Finished(r) /\ req[r].result = "ok")
       => /\ {req[r].wr[k].line : k \in DOMAIN req[r].wr}
               = {j \in 1..req[r].sale.nLines : Listed(req[r].asRead, req[r].sale.bulkItems[j].itemId)}
          /\ Len(req[r].wr) <= req[r].sale.nLines
C17_SkipNotFound == []C17_State /\ [][\A r \in Req : C17_Step(r)]_vars
C17_Witness ==
    \E r \in Req : /\ BulkReq(r) /\ Finished(r) /\ req[r].result = "ok"
                    /\ req[r].sale.nLines = 2
                    /\ ~Listed(req[r].asRead, req[r].sale.bulkItems[1].itemId)
                    /\ Len(req[r].wr) = 1 /\ req[r].wr[1].line = 2

\* A finished bulk sale of two lines for one item, none of whose store calls
\* rejected, the first line asking no more than the stock read.
TwoLinesOneItem(r) ==
    LET rq == req[r]
        lines == rq.sale.bulkItems
    IN /\ BulkReq(r) /\ Finished(r) /\ rq.result # "StoreError"
       /\ Len(lines) = 2 /\ lines[1].itemId = lines[2].itemId
       /\ Listed(rq.asRead, lines[1].itemId) /\ QtyCell(rq.asRead, lines[1].itemId) # NaN
       /\ lines[1].qty.k = "num" /\ lines[2].qty.k = "num"
       /\ lines[1].qty.v <= QtyCell(rq.asRead, lines[1].itemId)

\* C18: two lines with q1 and q2 for one item of stock s (q1 <= s) succeed
\* with the writes s - q1 and s - q1 - q2 when q1 + q2 <= s, and the second
\* line is rejected for insufficient stock, after the write s - q1, otherwise.
C18_SameItemLines ==
    \A r \in Req :
       TwoLinesOneItem(r)
       => LET rq == req[r]
              s == QtyCell(rq.asRead, rq.sale.bulkItems[1].itemId)
              q1 == rq.sale.bulkItems[1].qty.v
              q2 == rq.sale.bulkItems[2].qty.v
          IN /\ Len(rq.wr) >= 1 /\ rq.wr[1].val = s - q1
             /\ inv[rq.wr[1].row].id = rq.sale.bulkItems[1].itemId
             /\ IF q1 + q2 <= s
                THEN /\ rq.result = "ok" /\ Len(rq.wr) = 2
                     /\ rq.wr[2].val = s - q1 - q2 /\ rq.wr[2].row = rq.wr[1].row
                ELSE rq.result = "Insufficient stock" /\ Len(rq.wr) = 1
C18_Witness ==
    \E r \in Req :
       /\ TwoLinesOneItem(r) /\ req[r].result = "ok"
       /\ req[r].sale.bulkItems[1].qty.v = 1 /\ req[r].sale.bulkItems[2].qty.v = 1
       /\ req[r].wr[2].val = 0

\* C19 as stated: a sale validates against the Inventory rows as they are in
\* the store when it starts, and a claim validates against the quantity its
\* product has in the store when the claim starts.
C19_Step ==
    /\ \A r \in Req :
          (req[r].pc = "idle" /\ req'[r].asRead # <<>>) => req'[r].asRead = inv
    /\ (/\ cops' = cops + 1 /\ cl'.op = "claim" /\ cl'.n = cops + 1
        /\ Listed(inv, cl'.itemId) /\ cl'.result # "Product not found")
       => cl'.currentQty = (IF QtyCell(inv, cl'.itemId) = NaN THEN 0 ELSE QtyCell(inv, cl'.itemId))
C19_FreshRead == [][C19_Step]_vars

\* C20 as stated: the Inventory update of a claim changes the quantity cell of
\* the claimed item's row and nothing else: every other field of that row and
\* every other row keep the values the store held before the write.
C20_Step ==
    (cl.op = "claim" /\ cl.pc = "claimUpdate" /\ cl'.pc = "claimReload")
    => /\ Len(inv') = Len(inv)
       /\ \A i \in DOMAIN inv :
             /\ inv'[i].id = inv[i].id /\ inv'[i].price = inv[i].price
             /\ inv[i].id # cl.itemId => inv'[i] = inv[i]
C20_ClaimFrame == [][C20_Step]_vars

\* C21 as stated: the claim row that processClaim appends has a quantity that
\* is a positive integer and at most the quantity its product has in the
\* Inventory at that time.
C21_Step ==
    (cl.op = "claim" /\ cl.pc = "claimAppend" /\ Len(warranty') = Len(warranty) + 1)
    => LET row == warranty'[Len(warranty')]
       IN /\ row.qty >= 1
          /\ Listed(inv, row.itemId) => row.qty <= QtyCell(inv, row.itemId)
C21_ClaimQtyPositive == [][C21_Step]_vars

\* C22: the update of markLoanAsPaid changes the status and the date paid of
\* one row that holds the loan id, and no other cell of the Loans table.
C22_Step ==
    (cl.op = "markPaid" /\ cl.pc = "mpUpdate" /\ cl'.pc = "done" /\ cl'.result = "ok")
    => /\ Len(loans') = Len(loans)
       /\ \E i \in 2..Len(loans) :
             /\ loans[i].loanId = cl.loanId
             /\ loans'[i] = [loans[i] EXCEPT !.status = loans'[i].status,
                                             !.datePaid = loans'[i].datePaid]
             /\ loans'[i].status = "Paid"
             /\ \A j \in DOMAIN loans : j # i => loans'[j] = loans[j]
C22_MarkPaidFrame == [][C22_Step]_vars
C22_Witness ==
    /\ cl.op = "markPaid" /\ cl.pc = "done" /\ cl.result = "ok"
    /\ Len(loans) = 3 /\ loans[3].status = "Paid" /\ loans[2].status = "Unpaid"
    /\ loans[3].amount = 400

\* C23 as stated: a single-item sale whose item is not in the rows it read
\* answers item-not-found; one whose item is there and whose quantitySold is
\* not a positive integer answers the validation error; neither has issued a
\* sale row, a loan row or a quantity write.
NotPositiveInteger(raw) == raw.k # "num" \/ raw.v <= 0
C23_State(r) ==
    LET rq == req[r]
    IN (SingleReq(r) /\ Finished(r) /\ rq.asRead # <<>>)
       => /\ ~Listed(rq.asRead, rq.sale.itemId)
               => rq.result = "Item ID not found in Inventory" /\ IssuedNothing(rq)
          /\ (Listed(rq.asRead, rq.sale.itemId) /\ NotPositiveInteger(rq.sale.quantitySold))
               => rq.result = "Invalid quantitySold" /\ IssuedNothing(rq)
C23_Step(r) ==
    (SingleReq(r) /\ ~Finished(r) /\ NotPositiveInteger(req[r].sale.quantitySold))
    => (sales' = sales /\ loans' = loans /\ inv' = inv) \/ req'[r] = req[r]
C23_SingleValidation ==
    /\ [](\A r \in Req : C23_State(r))
    /\ [][\A r \in Req : C23_Step(r)]_vars

\* C24 as stated: the price recorded for a single-item sale is the applied
\* price of the request when it gives one (0 included), else its price per
\* unit when it gives one, else the price of the item as read.
GivenPrice(raw) == raw.k = "num"
PriceCell(table, itemId) == table[CHOOSE i \in 2..Len(table) : table[i].id = itemId].price
C24_State(r) ==
    LET rq == req[r]
        s == rq.sale
    IN (SingleReq(r) /\ RowsBy(sales, r) # {})
       => SaleRowBy(r).price =
             IF GivenPrice(s.appliedPrice) THEN s.appliedPrice.v
             ELSE IF GivenPrice(s.pricePerUnit) THEN s.pricePerUnit.v
             ELSE PriceCell(rq.asRead, s.itemId)
C24_AppliedPrice == \A r \in Req : C24_State(r)

\* C25: for the same table contents the sale path of the server and the
\* update path of the client address an item by the same row number, its
\* 0-based index among the data rows plus 2; markLoanAsPaid addresses a loan
\* the same way; and every quantity write of a sale went to that row number of
\* the rows it had read.
FirstOf(table, i, key) == \A j \in 2..(i - 1) : table[j][key] # table[i][key]
C25_Tables ==
    /\ \A i \in 2..Len(inv) :
          (inv[i].id # "" /\ FirstOf(inv, i, "id"))
          => /\ RowNumber(FindIndex(ReadAll(inv), inv[i].id)) = (i - 2) + 2
             /\ ClientRowNumber(ItemIndex(ReadData(inv), inv[i].id)) = (i - 2) + 2
    /\ \A i \in 2..Len(loans) :
          FirstOf(loans, i, "loanId")
          => ClientRowNumber(LoanIndex(ReadData(loans), loans[i].loanId)) = (i - 2) + 2
C25_Writes ==
    \A r \in Req : \A k \in DOMAIN req[r].wr :
        LET rq == req[r]
            w == rq.wr[k]
            id == IF rq.sale.nLines = 0 THEN rq.sale.itemId ELSE rq.sale.bulkItems[w.line].itemId
        IN /\ w.row \in 2..Len(rq.asRead)
           /\ rq.asRead[w.row].id = id
           /\ w.row = ClientRowNumber(ItemIndex(ReadData(rq.asRead), id))
C25_RowNumber == C25_Tables /\ C25_Writes
C25_Witness ==
    /\ \E r \in Req : /\ SingleReq(r) /\ Finished(r) /\ req[r].result = "ok"
                       /\ req[r].sale.itemId = "B" /\ req[r].wr[1].row = 3
    /\ cl.op = "markPaid" /\ cl.pc = "done" /\ cl.result = "ok" /\ Len(loans) = 2

\* C27 as stated: no two sale rows have the same Sale ID and no two loan rows
\* the same Loan ID.
C27_UniqueIds ==
    /\ \A i, j \in 2..Len(sales) : i # j => sales[i].saleId # sales[j].saleId
    /\ \A i, j \in 2..Len(loans) : i # j => loans[i].loanId # loans[j].loanId

\* C29 as stated: the Quantity Sold of the sale row of a successful bulk sale
\* is the sum of the decrements its quantity writes made.  The requests looked
\* at are those the sales form sends: numeric lines that add up to quantitySold.
\* The quantity a row held in the request's snapshot before its k-th write, and
\* the units the writes 1..k took off the Inventory.
HeldBefore(rq, k) ==
    LET earlier == {j \in 1..(k - 1) : rq.wr[j].row = rq.wr[k].row}
    IN IF earlier = {} THEN rq.asRead[rq.wr[k].row].qty
       ELSE rq.wr[CHOOSE j \in earlier : \A i \in earlier : i <= j].val
RECURSIVE SumLines(_, _)
SumLines(lines, k) == IF k = 0 THEN 0 ELSE lines[k].qty.v + SumLines(lines, k - 1)
RECURSIVE SumDecrements(_, _)
SumDecrements(rq, k) ==
    IF k = 0 THEN 0
    ELSE (HeldBefore(rq, k) - rq.wr[k].val) + SumDecrements(rq, k - 1)
C29_State(r) ==
    (/\ BulkReq(r) /\ Finished(r) /\ req[r].result = "ok"
     /\ \A k \in DOMAIN req[r].sale.bulkItems : req[r].sale.bulkItems[k].qty.k = "num"
     /\ req[r].sale.quantitySold.v = SumLines(req[r].sale.bulkItems, Len(req[r].sale.bulkItems)))
    => SaleRowBy(r).qty = SumDecrements(req[r], Len(req[r].wr))
C29_BulkQuantity == \A r \in Req : C29_State(r)

\* C26 as stated: the quantity write of a sale goes to the row that holds the
\* sold item when the write is made, and the row that a claim rewrites holds
\* the claimed item when it is rewritten, whatever other row was deleted since
\* the read (the item itself is still in the Inventory).
C26_SaleStep(r) ==
    (req[r].pc = "writeQty" /\ Len(req'[r].wr) = Len(req[r].wr) + 1)
    => LET rq == req[r]
           w == req'[r].wr[Len(req'[r].wr)]
           id == IF rq.sale.nLines = 0 THEN rq.sale.itemId ELSE rq.sale.bulkItems[rq.idx].itemId
       IN Listed(inv, id) => (w.row \in 2..Len(inv) /\ inv[w.row].id = id)
C26_ClaimStep ==
    (cl.op = "claim" /\ cl.pc = "claimUpdate" /\ cl'.pc = "claimReload" /\ Listed(inv, cl.itemId))
    => \A i \in DOMAIN inv : inv'[i] # inv[i] => inv[i].id = cl.itemId
C26_WriteHitsItem == [][C26_ClaimStep /\ \A r \in Req : C26_SaleStep(r)]_vars

\* C28 as stated: every loan row names the Sale ID of a row of Sales that is
\* paid by Loan and whose Total is the loan's Amount (a sale row counts in
\* whatever row of the sheet it is).
C28_LoanHasSale ==
    \A i \in 2..Len(loans) :
       \E j \in 1..Len(sales) : /\ sales[j].saleId = loans[i].saleId
                                /\ sales[j].pm = "Loan"
                                /\ sales[j].total = loans[i].amount

\* C30 as stated: the first record of the Warranty sheet is the Warranty
\* header row, and every row that processClaim appended is among the data rows
\* that a read of the sheet returns (every row but the first).
C30_ClaimIsDataRow ==
    /\ Len(warranty) >= 1 => warranty[1] = WarrantyHeader
    /\ \A i \in 1..Len(warranty) : warranty[i].by > 0 => i >= 2

====
